---- MODULE Spec2Model ----
(***************************************************************************)
(* Model of script/pipeline_aws.py: a linear extract / load / upload       *)
(* pipeline.  main() ensures the data directory, downloads and parses each *)
(* (url, filename) pair, uploads one Parquet object per year label and     *)
(* lists the bucket.                                                       *)
(*                                                                         *)
(* Strings are sequences of one-character strings, so that str.split,      *)
(* os.path.join and the f-string building the object key are computed the  *)
(* way Python computes them.                                               *)
(***************************************************************************)
EXTENDS Integers, Sequences, FiniteSets, TLC

VARIABLES
    files,      \* the list of (url, filename) pairs handed to load_data
    pc,         \* position of main(): the call it is about to make
    i,          \* load_data: index of the pair being processed
    j,          \* upload_to_s3: index of the dfs item being processed
    dirExists,  \* whether DATA_DIR exists on the local filesystem
    disk,       \* local files: path -> content
    dfs,        \* the dict built by load_data, in insertion order
    buffer,     \* parquet_buffer of the item being uploaded
    bucket,     \* the S3 bucket: key -> body
    keys,       \* what list_contents returned in this run
    calls,      \* the library calls made so far in this run, with outcome
    out,        \* the lines printed so far in this run
    run,        \* number of the current run of the script
    faults,     \* download failures injected so far
    bucket0,    \* the bucket as it was when the current run started
    finished    \* key sets of the bucket after each run that reached the end

vars == <<files, pc, i, j, dirExists, disk, dfs, buffer, bucket, keys, calls,
          out, run, faults, bucket0, finished>>

-----------------------------------------------------------------------------
(* Bounds of the model *)

\* longest filename of the one-pair lists
MaxLen == 3
\* runs of the script in one behaviour
MaxRuns == 2
\* download failures the environment may inject in one behaviour
MaxFaults == 1

-----------------------------------------------------------------------------
(* Strings *)

\* the characters that occur, in ASCII order
ASCII == <<".", "/", "0", "1", "2", "5", "6", "7", "8", "9", "_", "a", "b",
           "c", "d", "e", "n", "o", "p", "q", "r", "s", "t", "u", "v", "w",
           "z">>

Ord(c) == CHOOSE n \in 1..Len(ASCII) : ASCII[n] = c

\* s < t in the byte order S3 lists keys in
RECURSIVE StrLess(_, _)
StrLess(s, t) ==
    IF t = <<>> THEN FALSE
    ELSE IF s = <<>> THEN TRUE
    ELSE IF Head(s) = Head(t) THEN StrLess(Tail(s), Tail(t))
    ELSE Ord(Head(s)) < Ord(Head(t))

\* str.split(sep) for a one-character separator: the list of tokens
RECURSIVE Split(_, _)
Split(s, sep) ==
    IF \A n \in 1..Len(s) : s[n] # sep THEN <<s>>
    ELSE LET n == CHOOSE m \in 1..Len(s) :
                      s[m] = sep /\ \A k \in 1..(m - 1) : s[k] # sep
         IN  <<SubSeq(s, 1, n - 1)>> \o Split(SubSeq(s, n + 1, Len(s)), sep)

\* all strings over alphabet A of length at most n
RECURSIVE Strings(_, _)
Strings(A, n) ==
    IF n = 0 THEN {<<>>}
    ELSE LET S == Strings(A, n - 1)
         IN  S \cup {Append(s, c) : s \in {t \in S : Len(t) = n - 1}, c \in A}

-----------------------------------------------------------------------------
(* Constants of the script *)

DATA_DIR == <<".", ".", "/", "d", "a", "t", "a">>

BUCKET_NAME == "laranjao-datalakeaws"

\* the URLs are opaque to the script; each is abbreviated to its resource
FILES == <<
    <<"311_service_requests_2015.csv",
      <<"d", "a", "d", "o", "s", "_", "2", "0", "1", "5", ".", "c", "s", "v">> >>,
    <<"311_service_requests_2016.csv",
      <<"d", "a", "d", "o", "s", "_", "2", "0", "1", "6", ".", "c", "s", "v">> >>,
    <<"311_service_requests_2017.csv",
      <<"d", "a", "d", "o", "s", "_", "2", "0", "1", "7", ".", "c", "s", "v">> >>,
    <<"311_service_requests_2018.csv",
      <<"d", "a", "d", "o", "s", "_", "2", "0", "1", "8", ".", "c", "s", "v">> >>,
    <<"311_service_requests_2019.csv",
      <<"d", "a", "d", "o", "s", "_", "2", "0", "1", "9", ".", "c", "s", "v">> >>,
    <<"script_105774672_20210108153400_combine.csv",
      <<"d", "a", "d", "o", "s", "_", "2", "0", "2", "0", ".", "c", "s", "v">> >> >>

-----------------------------------------------------------------------------
(* Pure functions of the script *)

\* os.path.join(a, b)
PathJoin(a, b) ==
    IF b # <<>> /\ Head(b) = "/" THEN b
    ELSE IF a = <<>> \/ a[Len(a)] = "/" THEN a \o b
    ELSE a \o <<"/">> \o b

\* filepath = os.path.join(DATA_DIR, filename)
FilePath(filename) == PathJoin(DATA_DIR, filename)

\* mutant of Year: the token is cut at its last dot, rsplit(".", 1)[0]
Year_rsplit(filename) ==
    LET parts == Split(filename, "_")
        toks == Split(parts[Len(parts)], ".")
    IN  IF Len(toks) = 1 THEN toks[1]
        ELSE SubSeq(parts[Len(parts)], 1,
                    Len(parts[Len(parts)]) - Len(toks[Len(toks)]) - 1)

\* mutant of Year: the first token is taken, split("_")[0]
Year_first(filename) == Split(Split(filename, "_")[1], ".")[1]

\* ano = filename.split("_")[-1].split(".")[0]
Year(filename) ==
    LET parts == Split(filename, "_")
    IN  Split(parts[Len(parts)], ".")[1]

\* mutant of ObjectKey: the placeholder is missing from the key
ObjectKey_noyear(ano) ==
    <<"b", "r", "o", "n", "z", "e", "/", "d", "a", "d", "o", "s", "_">>
        \o <<".", "p", "a", "r", "q", "u", "e", "t">>

\* Key=f"bronze/dados_{ano}.parquet"
ObjectKey(ano) ==
    <<"b", "r", "o", "n", "z", "e", "/", "d", "a", "d", "o", "s", "_">>
        \o ano \o <<".", "p", "a", "r", "q", "u", "e", "t">>

-----------------------------------------------------------------------------
(* The lists load_data is given, and the environment the script starts in *)

Alphabet == {"_", ".", "a"}

URLS == <<"url_1", "url_2">>

\* filenames of the two-pair lists: two of them may share a name, a year
\* label ("a", "_a" and "a." all give "a"), or neither
PairNames == {<<"a">>, <<"_", "a">>, <<"a", ".">>, <<"_">>}

\* the script's own list, every one-pair list with a filename of at most
\* MaxLen characters, and the two-pair lists over PairNames
FileLists ==
    {FILES}
        \cup {<< <<URLS[1], f>> >> : f \in Strings(Alphabet, MaxLen)}
        \cup {<< <<URLS[1], f>>, <<URLS[2], g>> >> : f \in PairNames, g \in PairNames}

\* a key some other writer left in the bucket
ForeignKey == <<"r", "a", "w">>

ForeignBody == [parquet |-> [table |-> [url |-> "foreign", whole |-> TRUE]]]

\* the bucket before the first run: empty, or holding the foreign object
InitBuckets == {<<>>, [k \in {ForeignKey} |-> ForeignBody]}

None == "none"

-----------------------------------------------------------------------------
(* The local filesystem and the libraries, as far as the script uses them *)

\* paths under DATA_DIR that name a directory: DATA_DIR itself and its parent
IsDirectory(path) ==
    path \in {PathJoin(DATA_DIR, <<>>), PathJoin(DATA_DIR, <<".">>),
              PathJoin(DATA_DIR, <<".", ".">>)}

\* writing a file: the path now holds the content
WriteFile(d, path, content) ==
    [p \in DOMAIN d \cup {path} |-> IF p = path THEN content ELSE d[p]]

\* dfs[ano] = df: a dict keeps the position of a key it already holds
DictSet(d, ano, df) ==
    IF \E n \in 1..Len(d) : d[n].ano = ano
    THEN [n \in 1..Len(d) |-> IF d[n].ano = ano THEN [ano |-> ano, df |-> df] ELSE d[n]]
    ELSE Append(d, [ano |-> ano, df |-> df])

\* pd.read_csv(filepath): the table parsed from what the file holds
ReadCsv(content) == [table |-> content]

\* df.to_parquet(parquet_buffer); parquet_buffer.getvalue()
ToParquet(df) == [parquet |-> df]

\* mutant of PutObject: an object that exists is left as it is
PutObject_ifabsent(b, key, body) ==
    [k \in DOMAIN b \cup {key} |-> IF k \in DOMAIN b THEN b[k] ELSE body]

\* s3_client.put_object(Bucket, Key, Body): creates or replaces the object
PutObject(b, key, body) ==
    [k \in DOMAIN b \cup {key} |-> IF k = key THEN body ELSE b[k]]

\* the keys of set S as a list in byte order
RECURSIVE SortedKeys(_)
SortedKeys(S) ==
    IF S = {} THEN <<>>
    ELSE LET m == CHOOSE k \in S : \A o \in S \ {k} : StrLess(k, o)
         IN  <<m>> \o SortedKeys(S \ {m})

\* [obj["Key"] for obj in s3_client.list_objects(Bucket)["Contents"]]
ListObjects(b) == SortedKeys(DOMAIN b)

Call(op, n, arg, ok) == [op |-> op, n |-> n, arg |-> arg, ok |-> ok]

-----------------------------------------------------------------------------
(* The state machine *)

Init ==
    /\ files \in FileLists
    /\ pc = "start"
    /\ i = 1
    /\ j = 1
    /\ dirExists \in BOOLEAN
    /\ disk = <<>>
    /\ dfs = <<>>
    /\ buffer = None
    /\ bucket \in InitBuckets
    /\ keys = None
    /\ calls = <<>>
    /\ out = <<>>
    /\ run = 1
    /\ faults = 0
    /\ bucket0 = bucket
    /\ finished = <<>>

\* an uncaught exception ends the process
Crash(op, n, arg) ==
    /\ pc' = "crashed"
    /\ calls' = Append(calls, Call(op, n, arg, FALSE))

\* mutant of LoadNext: return dfs sits inside the loop
LoadNext_return(n) == IF n = 1 /\ Len(files) >= 1 THEN "extract" ELSE "connect"

\* where load_data goes after pair n - 1: the next pair, or return to main
LoadNext(n) == IF n <= Len(files) THEN "extract" ELSE "connect"

\* mutant of UploadNext: the loop is left after its first item
UploadNext_once(n) == IF n = 1 /\ Len(dfs) >= 1 THEN "serialize" ELSE "list"

\* where upload_to_s3 goes after item n - 1: the next item, or return to main
UploadNext(n) == IF n <= Len(dfs) THEN "serialize" ELSE "list"

\* create_data_dir(DATA_DIR): os.makedirs(directory, exist_ok=True)
CreateDataDir ==
    /\ pc = "start"
    /\ \/ /\ dirExists' = TRUE
          /\ calls' = Append(calls, Call("makedirs", 0, DATA_DIR, TRUE))
          /\ pc' = LoadNext(1)
       \/ /\ ~dirExists
          /\ Crash("makedirs", 0, DATA_DIR)
          /\ UNCHANGED dirExists
    /\ i' = 1
    /\ UNCHANGED <<files, j, disk, dfs, buffer, bucket, keys, out, run, faults,
                   bucket0, finished>>

\* mutant of ExtractData: no try / except, a failed download propagates
ExtractData_uncaught ==
    /\ pc = "extract"
    /\ LET url == files[i][1]
           filepath == FilePath(files[i][2])
       IN  \/ /\ ~IsDirectory(filepath)
              /\ disk' = WriteFile(disk, filepath, [url |-> url, whole |-> TRUE])
              /\ calls' = Append(calls, Call("urlretrieve", i, filepath, TRUE))
              /\ out' = Append(out, <<"scraping was done", filepath>>)
              /\ pc' = "parse"
              /\ UNCHANGED faults
           \/ /\ IsDirectory(filepath) \/ faults < MaxFaults
              /\ faults' = IF IsDirectory(filepath) THEN faults ELSE faults + 1
              /\ Crash("urlretrieve", i, filepath)
              /\ UNCHANGED <<disk, out>>
    /\ UNCHANGED <<files, i, j, dirExists, dfs, buffer, bucket, keys, run,
                   bucket0, finished>>

\* extract_data(url, filepath): urlretrieve inside try / except Exception
ExtractData ==
    /\ pc = "extract"
    /\ LET url == files[i][1]
           filepath == FilePath(files[i][2])
       IN  \/ \* the download succeeds
              /\ ~IsDirectory(filepath)
              /\ disk' = WriteFile(disk, filepath, [url |-> url, whole |-> TRUE])
              /\ calls' = Append(calls, Call("urlretrieve", i, filepath, TRUE))
              /\ out' = Append(out, <<"scraping was done", filepath>>)
              /\ UNCHANGED faults
           \/ \* the target is a directory: open() raises, the except logs
              /\ IsDirectory(filepath)
              /\ calls' = Append(calls, Call("urlretrieve", i, filepath, FALSE))
              /\ out' = Append(out, <<"Houston, we have a problem", filepath>>)
              /\ UNCHANGED <<disk, faults>>
           \/ \* the request fails before the file is opened: nothing written
              /\ ~IsDirectory(filepath)
              /\ faults < MaxFaults
              /\ faults' = faults + 1
              /\ calls' = Append(calls, Call("urlretrieve", i, filepath, FALSE))
              /\ out' = Append(out, <<"Houston, we have a problem", filepath>>)
              /\ UNCHANGED disk
           \/ \* the transfer breaks off: a partial file is left
              /\ ~IsDirectory(filepath)
              /\ faults < MaxFaults
              /\ faults' = faults + 1
              /\ disk' = WriteFile(disk, filepath, [url |-> url, whole |-> FALSE])
              /\ calls' = Append(calls, Call("urlretrieve", i, filepath, FALSE))
              /\ out' = Append(out, <<"Houston, we have a problem", filepath>>)
    /\ pc' = "parse"
    /\ UNCHANGED <<files, i, j, dirExists, dfs, buffer, bucket, keys, run,
                   bucket0, finished>>

\* mutant of ParseData: read_csv is guarded too, a failed parse is skipped
ParseData_guarded ==
    /\ pc = "parse"
    /\ LET filename == files[i][2]
           filepath == FilePath(filename)
           ano == Year(filename)
       IN  \/ /\ filepath \in DOMAIN disk
              /\ dfs' = DictSet(dfs, ano, ReadCsv(disk[filepath]))
              /\ calls' = Append(calls, Call("read_csv", i, filepath, TRUE))
           \/ /\ calls' = Append(calls, Call("read_csv", i, filepath, FALSE))
              /\ UNCHANGED dfs
    /\ i' = i + 1
    /\ pc' = LoadNext(i + 1)
    /\ UNCHANGED <<files, j, dirExists, disk, buffer, bucket, keys, out, run,
                   faults, bucket0, finished>>

\* ano = ...; dfs[ano] = pd.read_csv(filepath)
ParseData ==
    /\ pc = "parse"
    /\ LET filename == files[i][2]
           filepath == FilePath(filename)
           ano == Year(filename)
       IN  \/ /\ filepath \in DOMAIN disk
              /\ dfs' = DictSet(dfs, ano, ReadCsv(disk[filepath]))
              /\ calls' = Append(calls, Call("read_csv", i, filepath, TRUE))
              /\ i' = i + 1
              /\ pc' = LoadNext(i + 1)
           \/ \* no such file, a directory, or content read_csv rejects
              /\ Crash("read_csv", i, filepath)
              /\ UNCHANGED <<i, dfs>>
    /\ UNCHANGED <<files, j, dirExists, disk, buffer, bucket, keys, out, run,
                   faults, bucket0, finished>>

\* s3_client = connect_to_s3(...)
ConnectToS3 ==
    /\ pc = "connect"
    /\ \/ /\ calls' = Append(calls, Call("client", 0, "s3", TRUE))
          /\ pc' = UploadNext(1)
       \/ Crash("client", 0, "s3")
    /\ j' = 1
    /\ UNCHANGED <<files, i, dirExists, disk, dfs, buffer, bucket, keys, out,
                   run, faults, bucket0, finished>>

\* upload_to_s3: parquet_buffer = BytesIO(); df.to_parquet(parquet_buffer)
Serialize ==
    /\ pc = "serialize"
    /\ \/ /\ buffer' = ToParquet(dfs[j].df)
          /\ calls' = Append(calls, Call("to_parquet", j, dfs[j].ano, TRUE))
          /\ pc' = "put"
       \/ /\ Crash("to_parquet", j, dfs[j].ano)
          /\ UNCHANGED buffer
    /\ UNCHANGED <<files, i, j, dirExists, disk, dfs, bucket, keys, out, run,
                   faults, bucket0, finished>>

\* mutant of Upload: a failed put_object is tried again
Upload_retry ==
    /\ pc = "put"
    /\ LET key == ObjectKey(dfs[j].ano)
       IN  \/ /\ bucket' = PutObject(bucket, key, buffer)
              /\ calls' = Append(calls, Call("put_object", j, key, TRUE))
              /\ out' = Append(out, <<"upload to S3", dfs[j].ano>>)
              /\ j' = j + 1
              /\ pc' = UploadNext(j + 1)
           \/ /\ Len(calls) < 2 * Len(files) + 2 * Len(dfs) + 4
              /\ calls' = Append(calls, Call("put_object", j, key, FALSE))
              /\ UNCHANGED <<bucket, out, j, pc>>
    /\ UNCHANGED <<files, i, dirExists, disk, dfs, buffer, keys, run, faults,
                   bucket0, finished>>

\* upload_to_s3: s3_client.put_object(...); print(...)
Upload ==
    /\ pc = "put"
    /\ LET key == ObjectKey(dfs[j].ano)
       IN  \/ /\ bucket' = PutObject(bucket, key, buffer)
              /\ calls' = Append(calls, Call("put_object", j, key, TRUE))
              /\ out' = Append(out, <<"upload to S3", dfs[j].ano>>)
              /\ j' = j + 1
              /\ pc' = UploadNext(j + 1)
           \/ /\ Crash("put_object", j, key)
              /\ UNCHANGED <<bucket, out, j>>
    /\ UNCHANGED <<files, i, dirExists, disk, dfs, buffer, keys, run, faults,
                   bucket0, finished>>

\* list_contents(BUCKET_NAME, s3_client)
ListContents ==
    /\ pc = "list"
    /\ \/ /\ keys' = ListObjects(bucket)
          /\ calls' = Append(calls, Call("list_objects", 0, BUCKET_NAME, TRUE))
          /\ out' = Append(out, <<"keys", ListObjects(bucket)>>)
          /\ finished' = Append(finished, DOMAIN bucket)
          /\ pc' = "done"
       \/ /\ Crash("list_objects", 0, BUCKET_NAME)
          /\ UNCHANGED <<keys, out, finished>>
    /\ UNCHANGED <<files, i, j, dirExists, disk, dfs, buffer, bucket, run,
                   faults, bucket0>>

\* the operator starts the script again: if __name__ == "__main__": main()
Rerun ==
    /\ pc \in {"done", "crashed"}
    /\ run < MaxRuns
    /\ run' = run + 1
    /\ pc' = "start"
    /\ i' = 1
    /\ j' = 1
    /\ dfs' = <<>>
    /\ buffer' = None
    /\ keys' = None
    /\ calls' = <<>>
    /\ out' = <<>>
    /\ bucket0' = bucket
    /\ UNCHANGED <<files, dirExists, disk, bucket, faults, finished>>

Next ==
    \/ CreateDataDir
    \/ ExtractData
    \/ ParseData
    \/ ConnectToS3
    \/ Serialize
    \/ Upload
    \/ ListContents
    \/ Rerun

Spec == Init /\ [][Next]_vars

TypeOK ==
    /\ files \in FileLists
    /\ pc \in {"start", "extract", "parse", "connect", "serialize", "put",
               "list", "done", "crashed"}
    /\ i \in 1..(Len(files) + 1)
    /\ j \in 1..(Len(dfs) + 1)
    /\ dirExists \in BOOLEAN
    /\ run \in 1..MaxRuns
    /\ faults \in 0..MaxFaults

-----------------------------------------------------------------------------
(* Vocabulary of the properties *)

Max(S) == CHOOSE x \in S : \A y \in S : y <= x
Min(S) == CHOOSE x \in S : \A y \in S : x <= y

Positions(s, c) == {n \in 1..Len(s) : s[n] = c}

\* the part of a filename after its last underscore (all of it when none)
AfterLastUnderscore(f) ==
    IF Positions(f, "_") = {} THEN f
    ELSE SubSeq(f, Max(Positions(f, "_")) + 1, Len(f))

\* a token up to its first dot (all of it when none)
UpToFirstDot(t) ==
    IF Positions(t, ".") = {} THEN t
    ELSE SubSeq(t, 1, Min(Positions(t, ".")) - 1)

\* a token without its extension, the extension starting at the last dot
BeforeExtension(t) ==
    IF Positions(t, ".") = {} THEN t
    ELSE SubSeq(t, 1, Max(Positions(t, ".")) - 1)

\* the key pattern bronze/dados_{year}.parquet, spelled out
BronzeKey(year) ==
    <<"b", "r", "o", "n", "z", "e", "/">> \o <<"d", "a", "d", "o", "s", "_">>
        \o year \o <<".">> \o <<"p", "a", "r", "q", "u", "e", "t">>

Filenames == {files[n][2] : n \in 1..Len(files)}

CallsOf(op) == {k \in 1..Len(calls) : calls[k].op = op}

\* the keys handed to put_object so far in this run
PutKeys == {calls[k].arg : k \in CallsOf("put_object")}

\* pairs whose download failed in this run
FailedDownloads == {calls[k].n : k \in {m \in CallsOf("urlretrieve") : ~calls[m].ok}}

UploadOver == pc \in {"list", "done"}

-----------------------------------------------------------------------------
(* C1 *)

\* C1 as stated: every key passed to put_object is bronze/dados_{year}.parquet
\* with {year} the token of the filename after its last underscore and before
\* its extension, for every filename; once the upload is over every pair of
\* the list has had its key passed.
C1_KeyBeforeExtension ==
    LET expected == {BronzeKey(BeforeExtension(AfterLastUnderscore(f))) : f \in Filenames}
    IN  /\ PutKeys \subseteq expected
        /\ UploadOver => PutKeys = expected

\* C1 amended: the key passed to put_object is bronze/dados_{year}.parquet
\* with {year} the part of the filename after its last underscore up to the
\* first dot after it (to the end of the name when no dot follows).
C1_KeyUpToFirstDot ==
    LET expected == {BronzeKey(UpToFirstDot(AfterLastUnderscore(f))) : f \in Filenames}
    IN  /\ PutKeys \subseteq expected
        /\ UploadOver => PutKeys = expected

\* a finished run over a filename whose last token has two dots: the key put
\* is cut at the first dot, not at the extension
C1_Witness ==
    /\ pc = "done"
    /\ \E f \in Filenames :
          /\ BeforeExtension(AfterLastUnderscore(f)) # UpToFirstDot(AfterLastUnderscore(f))
          /\ BronzeKey(UpToFirstDot(AfterLastUnderscore(f))) \in PutKeys
          /\ BronzeKey(BeforeExtension(AfterLastUnderscore(f))) \notin PutKeys

-----------------------------------------------------------------------------
(* C2 *)

\* C2: a download, failed or not, never ends the run: every urlretrieve call
\* is followed by the read_csv of the same file, a failed one after its
\* message was printed; while it is the latest call the script stands at the
\* parse of that file.
C2_DownloadNeverCrashes ==
    \A k \in CallsOf("urlretrieve") :
        /\ k = Len(calls) => pc = "parse" /\ i = calls[k].n
        /\ k < Len(calls) =>
              calls[k + 1].op = "read_csv" /\ calls[k + 1].n = calls[k].n
        /\ ~calls[k].ok =>
              \E m \in 1..Len(out) :
                  out[m] = <<"Houston, we have a problem", calls[k].arg>>

\* a failed download whose file was then handed to read_csv
C2_Witness ==
    \E k \in CallsOf("urlretrieve") :
        /\ ~calls[k].ok
        /\ k < Len(calls)
        /\ calls[k + 1].op = "read_csv"

-----------------------------------------------------------------------------
(* C3 *)

\* C3 as stated: when a download fails, the download of every later pair of
\* the list is still attempted in that run.
C3_LaterDownloadsAttempted ==
    pc \in {"done", "crashed"} =>
        \A n \in FailedDownloads :
            \A m \in (n + 1)..Len(files) :
                \E k \in CallsOf("urlretrieve") : calls[k].n = m

-----------------------------------------------------------------------------
(* C4 *)

Range(q) == {q[n] : n \in 1..Len(q)}

\* bronze/dados_{year}.parquet for year in 2015..2020
SixKeys ==
    {BronzeKey(<<"2", "0", d, u>>) :
        <<d, u>> \in {<<"1", "5">>, <<"1", "6">>, <<"1", "7">>, <<"1", "8">>,
                      <<"1", "9">>, <<"2", "0">>}}

\* C4 as stated: after a run of FILES in which all six uploads succeed,
\* list_contents returns exactly the six keys, whatever the bucket held before.
C4_ExactlySixWhatever ==
    (files = FILES /\ pc = "done") => Len(keys) = 6 /\ Range(keys) = SixKeys

\* C4 amended: after a run of FILES in which all six uploads succeed,
\* list_contents returns exactly the six keys provided the bucket held no
\* other key before the run (it returns every key of the bucket).
C4_ExactlySixWhenNoOtherKey ==
    (files = FILES /\ pc = "done" /\ DOMAIN bucket0 \subseteq SixKeys) =>
        Len(keys) = 6 /\ Range(keys) = SixKeys

\* a finished second run of FILES on a bucket that held some of the six keys
\* and nothing else
C4_Witness ==
    /\ files = FILES
    /\ pc = "done"
    /\ run = 2
    /\ DOMAIN bucket0 # {}
    /\ DOMAIN bucket0 \subseteq SixKeys
    /\ Len(keys) = 6

-----------------------------------------------------------------------------
(* C5 *)

\* pairs whose download succeeded in this run
GoodDownloads == {calls[k].n : k \in {m \in CallsOf("urlretrieve") : calls[m].ok}}

LoadReturned == pc = "connect"

\* C5 as stated: when load_data finishes the directory holds exactly one file
\* per pair whose download succeeded in this run, and no file for a pair
\* whose download failed.
C5_FilesExactlyForGoodDownloads ==
    LoadReturned =>
        /\ \A n \in GoodDownloads : FilePath(files[n][2]) \in DOMAIN disk
        /\ \A n \in FailedDownloads : FilePath(files[n][2]) \notin DOMAIN disk
        /\ Cardinality(DOMAIN disk) = Cardinality(GoodDownloads)

\* C5 amended: when load_data returns, a file is present for every pair whose
\* download succeeded in this run and also for every pair whose download
\* failed (a partial file, or one an earlier run left: read_csv had to read
\* it); pairs that share a filename share one file, so the files written
\* are one per distinct filename of the list.
C5_FilesForEveryPair ==
    LoadReturned =>
        /\ \A n \in GoodDownloads \cup FailedDownloads :
              FilePath(files[n][2]) \in DOMAIN disk
        /\ GoodDownloads \cup FailedDownloads = 1..Len(files)
        /\ Cardinality(DOMAIN disk) = Cardinality(Filenames)

\* load_data returned although a download failed in this run
C5_Witness ==
    /\ LoadReturned
    /\ FailedDownloads # {}
    /\ \E n \in FailedDownloads : FilePath(files[n][2]) \in DOMAIN disk

-----------------------------------------------------------------------------
(* C6 *)

LoadOver == pc \in {"connect", "serialize", "put", "list", "done"}

\* C6: over a run of FILES, distinct entries yield distinct year labels,
\* distinct local paths and distinct object keys; the tables held after the
\* load and the objects written by the upload are as many as the entries,
\* each entry's table and object coming from its own URL.
C6_OnePerYear ==
    files = FILES =>
        LET N == 1..Len(files)
        IN  /\ LoadOver =>
                  /\ Len(dfs) = Len(files)
                  /\ Cardinality({dfs[n].ano : n \in N}) = Len(files)
                  /\ Cardinality(DOMAIN disk) = Len(files)
                  /\ \A n \in N : dfs[n].df.table.url = files[n][1]
            /\ UploadOver =>
                  /\ Cardinality(CallsOf("put_object")) = Len(files)
                  /\ Cardinality(PutKeys) = Len(files)
                  /\ \A k \in CallsOf("put_object") :
                        bucket[calls[k].arg].parquet.table.url = files[calls[k].n][1]

\* a run of FILES whose six uploads are over, six tables held
C6_Witness ==
    /\ files = FILES
    /\ UploadOver
    /\ Len(dfs) = 6
    /\ Cardinality(PutKeys) = 6

-----------------------------------------------------------------------------
(* C7 *)

\* the call that the script makes after call a, when a returned
Follows(a, b) ==
    CASE a.op = "makedirs" ->
            IF Len(files) >= 1 THEN b.op = "urlretrieve" /\ b.n = 1
            ELSE b.op = "client"
      [] a.op = "urlretrieve" -> b.op = "read_csv" /\ b.n = a.n
      [] a.op = "read_csv" ->
            IF a.n < Len(files) THEN b.op = "urlretrieve" /\ b.n = a.n + 1
            ELSE b.op = "client"
      [] a.op = "client" ->
            IF Len(dfs) >= 1 THEN b.op = "to_parquet" /\ b.n = 1
            ELSE b.op = "list_objects"
      [] a.op = "to_parquet" -> b.op = "put_object" /\ b.n = a.n
      [] a.op = "put_object" ->
            IF a.n < Len(dfs) THEN b.op = "to_parquet" /\ b.n = a.n + 1
            ELSE b.op = "list_objects"
      [] a.op = "list_objects" -> FALSE

\* C7: the calls of a run are made one after the other in phase order:
\* makedirs first; each file's download, then its parse, then the next
\* file's download; every file parsed before the first put_object; each
\* put_object before the next item's; the listing after the last put_object.
C7_PhaseOrder ==
    /\ calls # <<>> => calls[1].op = "makedirs"
    /\ \A k \in 1..(Len(calls) - 1) : Follows(calls[k], calls[k + 1])
    /\ CallsOf("put_object") # {} =>
          LET first == Min(CallsOf("put_object"))
          IN  {calls[m].n : m \in {k \in CallsOf("read_csv") : k < first /\ calls[k].ok}}
                  = 1..Len(files)
    /\ \A k \in CallsOf("list_objects") :
          /\ k = Len(calls)
          /\ {calls[m].n : m \in {p \in CallsOf("put_object") : calls[p].ok}}
                 = 1..Len(dfs)

\* a finished run over a two-pair list with two year labels: all eleven calls
C7_Witness ==
    /\ pc = "done"
    /\ Len(files) = 2
    /\ Len(dfs) = 2
    /\ Len(calls) = 2 * Len(files) + 2 * Len(dfs) + 3

-----------------------------------------------------------------------------
(* C8 *)

\* C8: a failed call other than a download is the last call of its run, and
\* the run has ended there; when it is the k-th put_object, the k - 1 objects
\* written before it are in the bucket, no other put_object was issued and
\* the bucket was never listed.
C8_FailureEndsRun ==
    /\ \A k \in 1..Len(calls) :
          (~calls[k].ok /\ calls[k].op # "urlretrieve") =>
              /\ k = Len(calls)
              /\ pc = "crashed"
    /\ pc = "crashed" => calls # <<>> /\ ~calls[Len(calls)].ok
    /\ (pc = "crashed" /\ calls[Len(calls)].op = "put_object") =>
          LET k == calls[Len(calls)].n
          IN  /\ \A m \in 1..(k - 1) :
                    /\ ObjectKey(dfs[m].ano) \in DOMAIN bucket
                    /\ bucket[ObjectKey(dfs[m].ano)] = ToParquet(dfs[m].df)
              /\ {calls[m].n : m \in CallsOf("put_object")} = 1..k
              /\ Cardinality(CallsOf("put_object")) = k
              /\ CallsOf("list_objects") = {}
              /\ keys = None
              /\ DOMAIN bucket0 \subseteq DOMAIN bucket

\* the run ended at its second or a later put_object
C8_Witness ==
    /\ pc = "crashed"
    /\ calls[Len(calls)].op = "put_object"
    /\ calls[Len(calls)].n >= 2

-----------------------------------------------------------------------------
(* C9 *)

BronzePrefix == <<"b", "r", "o", "n", "z", "e", "/", "d", "a", "d", "o", "s", "_">>
ParquetSuffix == <<".", "p", "a", "r", "q", "u", "e", "t">>

MatchesPattern(key) ==
    /\ Len(key) >= Len(BronzePrefix) + Len(ParquetSuffix)
    /\ SubSeq(key, 1, Len(BronzePrefix)) = BronzePrefix
    /\ SubSeq(key, Len(key) - Len(ParquetSuffix) + 1, Len(key)) = ParquetSuffix

\* C9: a run that follows a finished run and finishes too has put the same
\* keys, which existed, each put replacing the object; the key sets after
\* finished runs are equal; no run removes a key, and every key put matches
\* bronze/dados_{year}.parquet.
C9_RerunOverwrites ==
    /\ \A m, n \in 1..Len(finished) : finished[m] = finished[n]
    /\ (pc = "done" /\ Len(finished) >= 2) =>
          /\ PutKeys \subseteq finished[1]
          /\ PutKeys \subseteq DOMAIN bucket0
          /\ \A k \in CallsOf("put_object") : calls[k].ok
          /\ \A n \in 1..Len(dfs) :
                bucket[ObjectKey(dfs[n].ano)] = ToParquet(dfs[n].df)
    /\ DOMAIN bucket0 \subseteq DOMAIN bucket
    /\ \A key \in PutKeys : MatchesPattern(key)
    /\ DOMAIN bucket \ DOMAIN bucket0 \subseteq PutKeys

\* the second of two finished runs
C9_Witness ==
    /\ pc = "done"
    /\ run = 2
    /\ Len(finished) = 2
    /\ PutKeys # {}

-----------------------------------------------------------------------------
(* C10 *)

\* C10: a put_object is issued only when every file of the list was parsed;
\* a run that ends at a failed parse has issued none and leaves the bucket
\* as it was before the run.
C10_UploadAfterFullLoad ==
    /\ CallsOf("put_object") # {} =>
          \A n \in 1..Len(files) :
              \E k \in CallsOf("read_csv") : calls[k].n = n /\ calls[k].ok
    /\ (\E k \in CallsOf("read_csv") : ~calls[k].ok) =>
          /\ CallsOf("put_object") = {}
          /\ bucket = bucket0
          /\ pc = "crashed"

\* the second file's parse failed after the first was downloaded and parsed
C10_Witness ==
    /\ pc = "crashed"
    /\ calls[Len(calls)].op = "read_csv"
    /\ calls[Len(calls)].n >= 2
    /\ calls[2].ok /\ calls[3].ok
    /\ bucket = bucket0

====
